---- MODULE Spec2Model ----
(***************************************************************************)
(* Exercise evaluation engine of smart-rehab (evaluateFrame and its five   *)
(* analyzers) together with the way the patient page threads the rep and   *)
(* phase counters through it.                                              *)
(*                                                                         *)
(* Number representation.  Landmark coordinates are integers counting      *)
(* steps of 0.05 (1/GridPerUnit) of the normalised frame, so the knee      *)
(* margin 0.05 is one step and the pinch fallback 0.1 is two steps.        *)
(* Every comparison the code makes against a threshold is evaluated        *)
(* exactly on these rationals (lengths are carried as squares, arcsine     *)
(* and arccosine through a table of sin^2 at whole degrees).  Angles and   *)
(* qualities that the code holds as doubles are held as whole numbers,     *)
(* rounded in the direction that keeps the threshold tests exact.          *)
(* Strings whose characters the code inspects (the phase labels) are       *)
(* sequences of one-character strings.                                     *)
(***************************************************************************)
EXTENDS Integers, Sequences, FiniteSets, TLC

VARIABLES
  exercise,      \* the selected exercise id
  repRef,        \* repRef.current
  phaseRef,      \* phaseRef.current
  last,          \* the last call of evaluateFrame: arguments and result
  prev,          \* the call before it (kept by the evaluator harness)
  cycle,         \* progress of the shoulder cycle of the instructions
  inSession,     \* the session view is shown
  initialised,   \* camera and landmarkers are set up
  paused,        \* tracking is paused
  quality,       \* the displayed quality
  status,        \* the displayed status line
  sumQualityRef, \* sumQualityRef.current
  frameCountRef, \* frameCountRef.current
  live,          \* the live snapshot published for the doctor
  savePc,        \* where saveSession stands
  pending,       \* the session document handed to addDoc
  clinicId       \* the clinic of the signed-in user, "" when there is none

vars ==
  <<exercise, repRef, phaseRef, last, prev, cycle, inSession, initialised,
    paused, quality, status, sumQualityRef, frameCountRef, live, savePc,
    pending, clinicId>>

\* the variables of the page outside the counters and the call records
pageVars ==
  <<inSession, initialised, paused, quality, status, sumQualityRef,
    frameCountRef, live, savePc, pending, clinicId>>

(* ----------------------------- bounds --------------------------------- *)

\* largest rep count a call may start from
MaxRep == 3
\* largest rep count a behaviour may begin with
MaxInitRep == 1
\* nose positions range over centre - MaxNoseOff .. centre + MaxNoseOff
MaxNoseOff == 3
\* frames the page processes between two resets of the counters
MaxFrames == 2
\* raw qualities tried on the clamp range over -MaxOvershoot .. 100 + MaxOvershoot
MaxOvershoot == 50

(* ------------------------ program constants --------------------------- *)

\* 0.05 = 1 / GridPerUnit, the knee margin; also the coordinate step
GridPerUnit == 20
\* 0.1 = 1 / PinchFloorDen, the fallback denominator of the pinch gap
PinchFloorDen == 10
\* 0.0001 = 1 / SpanEpsDen, added to the shoulder span
SpanEpsDen == 10000
\* head-turn yaw threshold in degrees
threshold == 25
\* head-turn quality scale
headScale == 70
\* shoulder lift and relax thresholds in degrees
liftAngle == 60
relaxAngle == 40

(* --------------------------- arithmetic ------------------------------- *)

Abs(n) == IF n < 0 THEN -n ELSE n
Min(a, b) == IF a < b THEN a ELSE b
Max(a, b) == IF a > b THEN a ELSE b

\* 100000 * sin^2(d degrees), d = 0..90 (index d + 1)
Sin2Tab ==
  << 0, 30, 122, 274, 487, 760, 1093, 1485, 1937, 2447,
     3015, 3641, 4323, 5060, 5853, 6699, 7598, 8548, 9549, 10599,
     11698, 12843, 14033, 15267, 16543, 17861, 19217, 20611, 22040, 23504,
     25000, 26526, 28081, 29663, 31270, 32899, 34549, 36218, 37904, 39604,
     41318, 43041, 44774, 46512, 48255, 50000, 51745, 53488, 55226, 56959,
     58682, 60396, 62096, 63782, 65451, 67101, 68730, 70337, 71919, 73474,
     75000, 76496, 77960, 79389, 80783, 82139, 83457, 84733, 85967, 87157,
     88302, 89401, 90451, 91452, 92402, 93301, 94147, 94940, 95677, 96359,
     96985, 97553, 98063, 98515, 98907, 99240, 99513, 99726, 99878, 99970,
     100000 >>

Sin2(d) == Sin2Tab[d + 1]
\* the scale of the table: sin^2(90 degrees) = 1
Sin2Scale == Sin2(90)
\* 100000 * cos^2(d degrees), d = 0..180
Cos2(d) == IF d <= 90 THEN Sin2Scale - Sin2(d) ELSE Sin2Scale - Sin2(180 - d)

\* least d in lo..hi with sin(d) >= sqrt(num2 / den2); it holds at hi
RECURSIVE LeastDeg(_, _, _, _)
LeastDeg(lo, hi, num2, den2) ==
  IF lo >= hi THEN lo
  ELSE LET mid == (lo + hi) \div 2
       IN  IF Sin2(mid) * den2 >= num2 * Sin2Scale
           THEN LeastDeg(lo, mid, num2, den2)
           ELSE LeastDeg(mid + 1, hi, num2, den2)

\* Math.asin(num / den) * (180 / Math.PI) for |num| <= den, den > 0,
\* in whole degrees rounded away from zero
AsinDeg(num, den) ==
  LET d == LeastDeg(0, 90, num * num, den * den)
  IN  IF num < 0 THEN -d ELSE d

\* cos(d degrees) >= dot / sqrt(prod), prod > 0, dot * dot <= prod
CosAtLeast(d, dot, prod) ==
  IF d <= 90
  THEN dot <= 0 \/ Cos2(d) * prod >= dot * dot * Sin2Scale
  ELSE dot < 0 /\ Cos2(d) * prod <= dot * dot * Sin2Scale

\* greatest d in lo..hi with cos(d) >= dot / sqrt(prod); it holds at lo
RECURSIVE GreatestDeg(_, _, _, _)
GreatestDeg(lo, hi, dot, prod) ==
  IF lo >= hi THEN lo
  ELSE LET mid == (lo + hi + 1) \div 2
       IN  IF CosAtLeast(mid, dot, prod)
           THEN GreatestDeg(mid, hi, dot, prod)
           ELSE GreatestDeg(lo, mid - 1, dot, prod)

\* Math.acos(dot / sqrt(prod)) * (180 / Math.PI), whole degrees rounded down
AcosDeg(dot, prod) == GreatestDeg(0, 180, dot, prod)

\* floor(sqrt(a / b)) for a >= 0, b > 0, searched in lo..hi
RECURSIVE FloorSqrt(_, _, _, _)
FloorSqrt(lo, hi, a, b) ==
  IF lo >= hi THEN lo
  ELSE LET mid == (lo + hi + 1) \div 2
       IN  IF mid * mid * b <= a
           THEN FloorSqrt(mid, hi, a, b)
           ELSE FloorSqrt(lo, mid - 1, a, b)

\* roots are searched in 0..SqrtBound
SqrtBound == 2000
FloorRoot(a, b) == FloorSqrt(0, SqrtBound, a, b)
CeilRoot(a, b) ==
  LET f == FloorRoot(a, b) IN IF f * f * b = a THEN f ELSE f + 1

(* ----------------------------- strings -------------------------------- *)

S_idle == <<"i", "d", "l", "e">>
S_right == <<"r", "i", "g", "h", "t">>
S_left == <<"l", "e", "f", "t">>
S_pinched == <<"p", "i", "n", "c", "h", "e", "d">>
S_released == <<"r", "e", "l", "e", "a", "s", "e", "d">>
S_open == <<"o", "p", "e", "n">>
S_fist == <<"f", "i", "s", "t">>
S_up == <<"u", "p">>
S_down == <<"d", "o", "w", "n">>
S_L0R0 == <<"L", "0", "R", "0">>
S_L0R1 == <<"L", "0", "R", "1">>
S_L1R0 == <<"L", "1", "R", "0">>
S_L1R1 == <<"L", "1", "R", "1">>
S_L1 == <<"L", "1">>
S_R1 == <<"R", "1">>
S_empty == << >>

\* String.prototype.includes
Includes(s, sub) ==
  \E i \in 0..(Len(s) - Len(sub)) : SubSeq(s, i + 1, i + Len(sub)) = sub

\* typeof v === 'string'
IsString(v) == DOMAIN v = 1..Len(v)

(* ---------------------------- landmarks ------------------------------- *)

Pt(px, py) == [x |-> px, y |-> py]

\* PoseLandmarkerResult | null and HandLandmarkerResult | null: null, a
\* result with no detected subject, or a result with one landmark list.
\* A landmark list maps the detector's indices to points.
NullResult == [isNull |-> TRUE, landmarks |-> << >>]
EmptyResult == [isNull |-> FALSE, landmarks |-> << >>]
Detected(lm) == [isNull |-> FALSE, landmarks |-> <<lm>>]

\* pose?.landmarks?.length (truthy)
HasLandmarks(r) == ~r.isNull /\ Len(r.landmarks) > 0

\* landmarks[0]
FirstLandmarks(r) == r.landmarks[1]

PoseLm(nose, lEar, rEar, lShoulder, rShoulder, hip, knee, ankle) ==
  (0 :> nose) @@ (7 :> lEar) @@ (8 :> rEar) @@ (11 :> lShoulder)
  @@ (12 :> rShoulder) @@ (23 :> hip) @@ (25 :> knee) @@ (27 :> ankle)

HandLm(wrist, thumb, indexTip, tips, mcps) ==
  (0 :> wrist) @@ (4 :> thumb) @@ (8 :> indexTip)
  @@ (12 :> tips[1]) @@ (16 :> tips[2]) @@ (20 :> tips[3])
  @@ (5 :> mcps[1]) @@ (9 :> mcps[2]) @@ (13 :> mcps[3]) @@ (17 :> mcps[4])

(* ----------------------------- results -------------------------------- *)

\* { rep, status, quality } : no phase property
NoPhase(rep, st, q) ==
  [rep |-> rep, status |-> st, quality |-> q,
   hasPhase |-> FALSE, phase |-> S_empty]

\* { rep, status, quality, phase }
WithPhase(rep, st, q, phase) ==
  [rep |-> rep, status |-> st, quality |-> q,
   hasPhase |-> TRUE, phase |-> phase]

(* ------------------------- geometric helpers -------------------------- *)

\* distance(a, b) squared, in grid steps squared
distanceSq(a, b) == (a.x - b.x) * (a.x - b.x) + (a.y - b.y) * (a.y - b.y)

\* angleDeg(a, b, c): angle at b in whole degrees, rounded down
angleDeg(a, b, c) ==
  LET abx == a.x - b.x
      aby == a.y - b.y
      cbx == c.x - b.x
      cby == c.y - b.y
      dot == abx * cbx + aby * cby
      magAbSq == abx * abx + aby * aby
      magCbSq == cbx * cbx + cby * cby
  IN  IF magAbSq = 0 \/ magCbSq = 0
      THEN 180
      ELSE AcosDeg(dot, magAbSq * magCbSq)

(* ------------------------------ head ---------------------------------- *)

\* variant: the fallback builds a fresh result instead of keeping the count
headNotVisible_fresh(state) ==
  NoPhase(0, <<"Show your shoulders and head">>, 0)

headNotVisible(state) ==
  NoPhase(state.rep, <<"Show your shoulders and head">>, 0)

headSpan(lm) == Abs(lm[11].x - lm[12].x)

\* variant: a zero span puts the phase back to idle
headHoldSteady_idle(state) ==
  WithPhase(state.rep, <<"Hold steady">>, 0, S_idle)

headHoldSteady(state) == NoPhase(state.rep, <<"Hold steady">>, 0)

\* yaw in whole degrees, rounded away from zero; delta / span is
\* (2 nose.x - lShoulder.x - rShoulder.x) / (2 span), clamped to [-1, 1]
headYaw(lm) ==
  LET span == headSpan(lm)
      num == 2 * lm[0].x - (lm[11].x + lm[12].x)
      den == 2 * span
      clamped == Max(-den, Min(den, num))
  IN  AsinDeg(clamped, den)

\* variant: the plain left-zone test is placed before the counting one
headCount_reordered(yaw, state) ==
  IF yaw > threshold /\ state.phase # S_right
  THEN [rep |-> state.rep, phase |-> S_right]
  ELSE IF yaw < -threshold /\ state.phase # S_left
  THEN [rep |-> state.rep, phase |-> S_left]
  ELSE IF yaw < -threshold /\ state.phase = S_right
  THEN [rep |-> state.rep + 1, phase |-> S_left]
  ELSE IF yaw > threshold /\ state.phase = S_left
  THEN [rep |-> state.rep + 1, phase |-> S_right]
  ELSE [rep |-> state.rep, phase |-> state.phase]

headCount(yaw, state) ==
  IF yaw > threshold /\ state.phase # S_right
  THEN [rep |-> state.rep, phase |-> S_right]
  ELSE IF yaw < -threshold /\ state.phase = S_right
  THEN [rep |-> state.rep + 1, phase |-> S_left]
  ELSE IF yaw < -threshold /\ state.phase # S_left
  THEN [rep |-> state.rep, phase |-> S_left]
  ELSE IF yaw > threshold /\ state.phase = S_left
  THEN [rep |-> state.rep + 1, phase |-> S_right]
  ELSE [rep |-> state.rep, phase |-> state.phase]

headQuality(yaw) == Min(100, Max(0, (Abs(yaw) * headScale) \div threshold))

headLogic(pose, state) ==
  IF ~HasLandmarks(pose)
  THEN headNotVisible(state)
  ELSE LET lm == FirstLandmarks(pose)
       IN  IF headSpan(lm) = 0
           THEN headHoldSteady(state)
           ELSE LET yaw == headYaw(lm)
                    next == headCount(yaw, state)
                IN  WithPhase(next.rep, <<"Yaw", yaw, "deg">>,
                              headQuality(yaw), next.phase)

(* ----------------------------- finger --------------------------------- *)

fingerNotVisible(state) ==
  NoPhase(state.rep, <<"Show your hand to the camera">>, 0)

\* variant: the denominator is max(span, 0.1)
fingerNormSq_floored(lm) ==
  LET spanSq == distanceSq(lm[4], lm[0])
      pinchSq == distanceSq(lm[4], lm[8])
      floorSteps == GridPerUnit \div PinchFloorDen
  IN  [num |-> pinchSq, den |-> Max(spanSq, floorSteps * floorSteps)]

\* norm = pinch / (span || 0.1), carried as the exact rational norm^2
fingerNormSq(lm) ==
  LET spanSq == distanceSq(lm[4], lm[0])
      pinchSq == distanceSq(lm[4], lm[8])
      floorSteps == GridPerUnit \div PinchFloorDen
  IN  [num |-> pinchSq,
       den |-> IF spanSq # 0 THEN spanSq ELSE floorSteps * floorSteps]

\* norm < pct / 100 and norm > pct / 100
NormBelow(normSq, pct) == normSq.num * 10000 < pct * pct * normSq.den
NormAbove(normSq, pct) == normSq.num * 10000 > pct * pct * normSq.den

\* variant: the rep is counted when the pinch closes
fingerCount_onPinch(normSq, state) ==
  IF NormBelow(normSq, 25) /\ state.phase # S_pinched
  THEN [rep |-> state.rep + 1, phase |-> S_pinched]
  ELSE IF NormAbove(normSq, 45) /\ state.phase = S_pinched
  THEN [rep |-> state.rep, phase |-> S_released]
  ELSE [rep |-> state.rep, phase |-> state.phase]

\* variant: a release puts the phase to open
fingerCount_reopen(normSq, state) ==
  LET phase1 == IF NormBelow(normSq, 25) THEN S_pinched ELSE state.phase
  IN  IF NormAbove(normSq, 45) /\ phase1 = S_pinched
      THEN [rep |-> state.rep + 1, phase |-> S_open]
      ELSE [rep |-> state.rep, phase |-> phase1]

fingerCount(normSq, state) ==
  LET phase1 == IF NormBelow(normSq, 25) THEN S_pinched ELSE state.phase
  IN  IF NormAbove(normSq, 45) /\ phase1 = S_pinched
      THEN [rep |-> state.rep + 1, phase |-> S_released]
      ELSE [rep |-> state.rep, phase |-> phase1]

\* (0.45 - norm) * 200 = 90 - 200 norm, rounded down, then clamped
fingerQuality(normSq) ==
  Max(0, Min(100, 90 - CeilRoot(40000 * normSq.num, normSq.den)))

\* (norm * 100).toFixed(0)
fingerPercent(normSq) == (FloorRoot(40000 * normSq.num, normSq.den) + 1) \div 2

fingerLogic(hand, state) ==
  IF ~HasLandmarks(hand)
  THEN fingerNotVisible(state)
  ELSE LET normSq == fingerNormSq(FirstLandmarks(hand))
           next == fingerCount(normSq, state)
       IN  WithPhase(next.rep, <<"Pinch gap", fingerPercent(normSq), "%">>,
                     fingerQuality(normSq), next.phase)

(* ------------------------------ hand ---------------------------------- *)

handNotVisible(state) ==
  NoPhase(state.rep, <<"Show your hand to the camera">>, 0)

\* variant: a tip level with its knuckle counts as extended
handExtended_inclusive(lm) ==
  LET tips == <<lm[8], lm[12], lm[16], lm[20]>>
      mcp == <<lm[5], lm[9], lm[13], lm[17]>>
  IN  Cardinality({idx \in 1..4 : tips[idx].y <= mcp[idx].y})

handExtended(lm) ==
  LET tips == <<lm[8], lm[12], lm[16], lm[20]>>
      mcp == <<lm[5], lm[9], lm[13], lm[17]>>
  IN  Cardinality({idx \in 1..4 : tips[idx].y < mcp[idx].y})

\* variant: two extended fingers already count as a fist
handCount_twoIsFist(extended, state) ==
  LET phase1 == IF extended >= 3 THEN S_open ELSE state.phase
  IN  IF extended <= 2 /\ phase1 = S_open
      THEN [rep |-> state.rep + 1, phase |-> S_fist]
      ELSE [rep |-> state.rep, phase |-> phase1]

\* variant: a fist counts whatever the phase
handCount_unarmed(extended, state) ==
  LET phase1 == IF extended >= 3 THEN S_open ELSE state.phase
  IN  IF extended <= 1
      THEN [rep |-> state.rep + 1, phase |-> S_fist]
      ELSE [rep |-> state.rep, phase |-> phase1]

handCount(extended, state) ==
  LET phase1 == IF extended >= 3 THEN S_open ELSE state.phase
  IN  IF extended <= 1 /\ phase1 = S_open
      THEN [rep |-> state.rep + 1, phase |-> S_fist]
      ELSE [rep |-> state.rep, phase |-> phase1]

handQuality(extended) == Min(100, extended * 25)

handLogic(hand, state) ==
  IF ~HasLandmarks(hand)
  THEN handNotVisible(state)
  ELSE LET extended == handExtended(FirstLandmarks(hand))
           next == handCount(extended, state)
       IN  WithPhase(next.rep,
                     IF extended >= 3 THEN <<"Open">> ELSE <<"Fist">>,
                     handQuality(extended), next.phase)

(* ------------------------------- leg ---------------------------------- *)

\* variant: the fallback reports the rest phase
legNotVisible_idle(state) ==
  WithPhase(state.rep, <<"Show full body to camera">>, 0, S_idle)

legNotVisible(state) ==
  NoPhase(state.rep, <<"Show full body to camera">>, 0)

\* variant: a knee exactly at the margin counts as raised
legRaised_inclusive(lm) == lm[25].y <= lm[23].y - 1

\* knee.y < hip.y - 0.05; 0.05 is one grid step
legRaised(lm) == lm[25].y < lm[23].y - 1

\* variant: every not-raised frame counts, whatever the phase
legCount_unguarded(raised, state) ==
  IF raised
  THEN [rep |-> state.rep, phase |-> S_up]
  ELSE [rep |-> state.rep + 1, phase |-> S_down]

legCount(raised, state) ==
  LET phase1 == IF raised THEN S_up ELSE state.phase
  IN  IF ~raised /\ phase1 = S_up
      THEN [rep |-> state.rep + 1, phase |-> S_down]
      ELSE [rep |-> state.rep, phase |-> phase1]

\* (180 - ang) * 1.2, rounded down, then clamped
legQuality(ang) == Min(100, Max(0, ((180 - ang) * 12) \div 10))

legLogic(pose, state) ==
  IF ~HasLandmarks(pose)
  THEN legNotVisible(state)
  ELSE LET lm == FirstLandmarks(pose)
           raised == legRaised(lm)
           next == legCount(raised, state)
           ang == angleDeg(lm[23], lm[25], lm[27])
       IN  WithPhase(next.rep,
                     IF raised THEN <<"Knee up">> ELSE <<"Neutral">>,
                     legQuality(ang), next.phase)

(* ----------------------------- shoulder ------------------------------- *)

\* variant: lost tracking clears both hold flags
shoulderNotVisible_relaxed(state) ==
  WithPhase(state.rep, <<"Show upper body">>, 0, S_L0R0)

shoulderNotVisible(state) == NoPhase(state.rep, <<"Show upper body">>, 0)

\* span = |rShoulder.x - lShoulder.x| + 0.0001, in units of 0.0001
shoulderSpan(lm) ==
  Abs(lm[12].x - lm[11].x) * (SpanEpsDen \div GridPerUnit) + 1

\* (1 - |ear.y - shoulder.y| / span) * 180 as the numerator over span
shoulderAngleNum(lm, ear, shoulder) ==
  (shoulderSpan(lm)
     - Abs(lm[ear].y - lm[shoulder].y) * (SpanEpsDen \div GridPerUnit)) * 180

\* lAngle and rAngle in whole degrees, rounded down
shoulderAngle(lm, ear, shoulder) ==
  shoulderAngleNum(lm, ear, shoulder) \div shoulderSpan(lm)

Digit(hold) == IF hold THEN "1" ELSE "0"

\* variant: the hold flags are read by comparing the whole label
shoulderCount_exactMatch(lAngle, rAngle, state) ==
  LET leftHold0 == state.phase \in {S_L1R0, S_L1R1}
      rightHold0 == state.phase \in {S_L0R1, S_L1R1}
      leftLift == ~leftHold0 /\ lAngle >= liftAngle
      rightLift == ~rightHold0 /\ rAngle >= liftAngle
      leftHold == IF leftLift THEN TRUE
                  ELSE IF leftHold0 /\ lAngle < relaxAngle THEN FALSE
                  ELSE leftHold0
      rightHold == IF rightLift THEN TRUE
                   ELSE IF rightHold0 /\ rAngle < relaxAngle THEN FALSE
                   ELSE rightHold0
  IN  [rep |-> state.rep + (IF leftLift THEN 1 ELSE 0)
                         + (IF rightLift THEN 1 ELSE 0),
       phase |-> <<"L", Digit(leftHold), "R", Digit(rightHold)>>]

\* variant: a held side is released as soon as it drops below the lift angle
shoulderCount_noHysteresis(lAngle, rAngle, state) ==
  LET phaseStr == IF IsString(state.phase) THEN state.phase ELSE S_L0R0
      leftHold0 == Includes(phaseStr, S_L1)
      rightHold0 == Includes(phaseStr, S_R1)
      leftLift == ~leftHold0 /\ lAngle >= liftAngle
      rightLift == ~rightHold0 /\ rAngle >= liftAngle
      leftHold == IF leftLift THEN TRUE
                  ELSE IF leftHold0 /\ lAngle < liftAngle THEN FALSE
                  ELSE leftHold0
      rightHold == IF rightLift THEN TRUE
                   ELSE IF rightHold0 /\ rAngle < liftAngle THEN FALSE
                   ELSE rightHold0
  IN  [rep |-> state.rep + (IF leftLift THEN 1 ELSE 0)
                         + (IF rightLift THEN 1 ELSE 0),
       phase |-> <<"L", Digit(leftHold), "R", Digit(rightHold)>>]

\* variant: the right side is only looked at when the left did not change
shoulderCount_chained(lAngle, rAngle, state) ==
  LET phaseStr == IF IsString(state.phase) THEN state.phase ELSE S_L0R0
      leftHold0 == Includes(phaseStr, S_L1)
      rightHold0 == Includes(phaseStr, S_R1)
      leftLift == ~leftHold0 /\ lAngle >= liftAngle
      leftDrop == leftHold0 /\ lAngle < relaxAngle
      rightLift == ~leftLift /\ ~leftDrop /\ ~rightHold0 /\ rAngle >= liftAngle
      rightDrop == ~leftLift /\ ~leftDrop /\ rightHold0 /\ rAngle < relaxAngle
      leftHold == IF leftLift THEN TRUE ELSE IF leftDrop THEN FALSE
                  ELSE leftHold0
      rightHold == IF rightLift THEN TRUE ELSE IF rightDrop THEN FALSE
                   ELSE rightHold0
  IN  [rep |-> state.rep + (IF leftLift THEN 1 ELSE 0)
                         + (IF rightLift THEN 1 ELSE 0),
       phase |-> <<"L", Digit(leftHold), "R", Digit(rightHold)>>]

\* variant: a lift of the left shoulder is counted for both shoulders
shoulderCount_double(lAngle, rAngle, state) ==
  LET phaseStr == IF IsString(state.phase) THEN state.phase ELSE S_L0R0
      leftHold0 == Includes(phaseStr, S_L1)
      rightHold0 == Includes(phaseStr, S_R1)
      leftLift == ~leftHold0 /\ lAngle >= liftAngle
      rightLift == ~rightHold0 /\ rAngle >= liftAngle
      leftHold == IF leftLift THEN TRUE
                  ELSE IF leftHold0 /\ lAngle < relaxAngle THEN FALSE
                  ELSE leftHold0
      rightHold == IF rightLift THEN TRUE
                   ELSE IF rightHold0 /\ rAngle < relaxAngle THEN FALSE
                   ELSE rightHold0
  IN  [rep |-> state.rep + (IF leftLift THEN 2 ELSE 0)
                         + (IF rightLift THEN 1 ELSE 0),
       phase |-> <<"L", Digit(leftHold), "R", Digit(rightHold)>>]

shoulderCount(lAngle, rAngle, state) ==
  LET phaseStr == IF IsString(state.phase) THEN state.phase ELSE S_L0R0
      leftHold0 == Includes(phaseStr, S_L1)
      rightHold0 == Includes(phaseStr, S_R1)
      leftLift == ~leftHold0 /\ lAngle >= liftAngle
      rightLift == ~rightHold0 /\ rAngle >= liftAngle
      leftHold == IF leftLift THEN TRUE
                  ELSE IF leftHold0 /\ lAngle < relaxAngle THEN FALSE
                  ELSE leftHold0
      rightHold == IF rightLift THEN TRUE
                   ELSE IF rightHold0 /\ rAngle < relaxAngle THEN FALSE
                   ELSE rightHold0
  IN  [rep |-> state.rep + (IF leftLift THEN 1 ELSE 0)
                         + (IF rightLift THEN 1 ELSE 0),
       phase |-> <<"L", Digit(leftHold), "R", Digit(rightHold)>>]

\* Math.max(lAngle, rAngle) / 1.2, rounded down, capped at 100
shoulderQuality(lm) ==
  Min(100, (Max(shoulderAngleNum(lm, 7, 11), shoulderAngleNum(lm, 8, 12)) * 10)
             \div (12 * shoulderSpan(lm)))

\* angle.toFixed(0)
shoulderShown(lm, ear, shoulder) ==
  (2 * shoulderAngleNum(lm, ear, shoulder) + shoulderSpan(lm))
    \div (2 * shoulderSpan(lm))

shoulderLogic(pose, state) ==
  IF ~HasLandmarks(pose)
  THEN shoulderNotVisible(state)
  ELSE LET lm == FirstLandmarks(pose)
           next == shoulderCount(shoulderAngle(lm, 7, 11),
                                 shoulderAngle(lm, 8, 12), state)
       IN  WithPhase(next.rep,
                     <<"L:", shoulderShown(lm, 7, 11), "deg R:",
                       shoulderShown(lm, 8, 12), "deg">>,
                     shoulderQuality(lm), next.phase)

(* ----------------------------- dispatch ------------------------------- *)

\* variant: the dispatcher answers Idle unless both detectors delivered
evaluateFrame_needsBoth(ex, pose, hand, state) ==
  IF pose.isNull \/ hand.isNull
  THEN NoPhase(state.rep, <<"Idle">>, 0)
  ELSE CASE ex = "head" -> headLogic(pose, state)
         [] ex = "finger" -> fingerLogic(hand, state)
         [] ex = "hand" -> handLogic(hand, state)
         [] ex = "leg" -> legLogic(pose, state)
         [] ex = "shoulder" -> shoulderLogic(pose, state)
         [] OTHER -> NoPhase(state.rep, <<"Idle">>, 0)

\* variant: the switch has no default and falls into the first analyzer
evaluateFrame_noDefault(ex, pose, hand, state) ==
  CASE ex = "finger" -> fingerLogic(hand, state)
    [] ex = "hand" -> handLogic(hand, state)
    [] ex = "leg" -> legLogic(pose, state)
    [] ex = "shoulder" -> shoulderLogic(pose, state)
    [] OTHER -> headLogic(pose, state)

evaluateFrame(ex, pose, hand, state) ==
  CASE ex = "head" -> headLogic(pose, state)
    [] ex = "finger" -> fingerLogic(hand, state)
    [] ex = "hand" -> handLogic(hand, state)
    [] ex = "leg" -> legLogic(pose, state)
    [] ex = "shoulder" -> shoulderLogic(pose, state)
    [] OTHER -> NoPhase(state.rep, <<"Idle">>, 0)

(* --------------------------- frame inputs ----------------------------- *)

ExerciseIds == {"head", "finger", "hand", "leg", "shoulder"}
\* identifiers outside the catalogue
OtherIds == {"unknown", ""}

\* a subject standing upright in the middle of the frame
DefaultPoseLm ==
  PoseLm(Pt(10, 4), Pt(11, 4), Pt(9, 4), Pt(12, 8), Pt(8, 8),
         Pt(10, 12), Pt(10, 16), Pt(10, 20))
DefaultPose == Detected(DefaultPoseLm)

HeadPoses ==
  { Detected([DefaultPoseLm EXCEPT ![0] = Pt(n, 4), ![11] = Pt(sh[1], 8),
                                   ![12] = Pt(sh[2], 8)]) :
      n \in (10 - MaxNoseOff)..(10 + MaxNoseOff),
      sh \in {<<12, 8>>, <<10, 10>>} }

LegPoses ==
  { Detected([DefaultPoseLm EXCEPT ![25] = knee, ![27] = ankle]) :
      knee \in {Pt(10, 16), Pt(11, 11), Pt(12, 10)},
      ankle \in {Pt(10, 20), Pt(12, 19), Pt(12, 10)} }

\* vertical ear-to-shoulder distances in grid steps
EarDrops == {0, 2, 3, 5}

ShoulderPoses ==
  { Detected([DefaultPoseLm EXCEPT ![11] = Pt(c[1], 8),
                                   ![7] = Pt(11, 8 - c[2]),
                                   ![8] = Pt(9, 8 - c[3])]) :
      c \in { d \in {12, 8} \X EarDrops \X EarDrops :
                d[1] = 12 \/ (d[2] \in {0, 5} /\ d[3] \in {0, 5}) } }

\* an open hand held upright
DefaultHandLm ==
  HandLm(Pt(10, 18), Pt(7, 12), Pt(9, 6),
         <<Pt(10, 6), Pt(11, 6), Pt(12, 6)>>,
         <<Pt(9, 10), Pt(10, 10), Pt(11, 10), Pt(12, 10)>>)
DefaultHand == Detected(DefaultHandLm)

FingerHands ==
  { Detected([DefaultHandLm EXCEPT ![0] = Pt(10, wy), ![4] = Pt(10, 10),
                                   ![8] = Pt(ix, 10)]) :
      wy \in {18, 11, 10}, ix \in 10..14 }

\* the first k of index, middle, ring, pinky are extended; the others are
\* folded below the knuckle (y 12) or held level with it (y 10)
OpenFistHands ==
  { Detected([DefaultHandLm EXCEPT
                ![8] = Pt(9, IF k >= 1 THEN 6 ELSE fy),
                ![12] = Pt(10, IF k >= 2 THEN 6 ELSE fy),
                ![16] = Pt(11, IF k >= 3 THEN 6 ELSE fy),
                ![20] = Pt(12, IF k >= 4 THEN 6 ELSE fy)]) :
      k \in 0..4, fy \in {12, 10} }

Absent == {NullResult, EmptyResult}

PosesOf(ex) ==
  CASE ex = "head" -> HeadPoses
    [] ex = "leg" -> LegPoses
    [] ex = "shoulder" -> ShoulderPoses
    [] OTHER -> {DefaultPose}

HandsOf(ex) ==
  CASE ex = "finger" -> FingerHands
    [] ex = "hand" -> OpenFistHands
    [] OTHER -> {DefaultHand}

\* the <<pose, hand>> pairs the detectors deliver for an exercise
Frames(ex) ==
  {<<p, DefaultHand>> : p \in Absent \cup PosesOf(ex)}
  \cup {<<DefaultPose, h>> : h \in Absent \cup HandsOf(ex)}

\* the frames the camera of the page delivers: nothing detected, the
\* neutral posture and the two postures the exercise alternates between
CameraFrames(ex) ==
  CASE ex = "head" ->
         {<<p, DefaultHand>> :
            p \in {NullResult} \cup
                  {q \in HeadPoses :
                     /\ q.landmarks[1][11].x = 12
                     /\ q.landmarks[1][0].x \in
                          {10 - MaxNoseOff, 10, 10 + MaxNoseOff}}}
    [] ex = "leg" ->
         {<<p, DefaultHand>> :
            p \in {NullResult} \cup
                  {q \in LegPoses :
                     /\ q.landmarks[1][27] = Pt(10, 20)
                     /\ q.landmarks[1][25] \in {Pt(10, 16), Pt(12, 10)}}}
    [] ex = "shoulder" ->
         {<<p, DefaultHand>> :
            p \in {NullResult} \cup
                  {q \in ShoulderPoses :
                     /\ q.landmarks[1][11].x = 12
                     /\ q.landmarks[1][7].y \in {3, 8}
                     /\ q.landmarks[1][8].y \in {3, 8}}}
    [] ex = "finger" ->
         {<<DefaultPose, h>> :
            h \in {NullResult} \cup
                  {q \in FingerHands :
                     /\ q.landmarks[1][0] = Pt(10, 18)
                     /\ q.landmarks[1][8].x \in {10, 14}}}
    [] ex = "hand" ->
         {<<DefaultPose, h>> :
            h \in {NullResult} \cup
                  {q \in OpenFistHands :
                     /\ q.landmarks[1][8].y = q.landmarks[1][20].y
                     /\ q.landmarks[1][8].y \in {6, 12}}}

PriorPhases ==
  {S_idle, S_right, S_left, S_pinched, S_released, S_open, S_fist, S_up,
   S_down, S_L0R0, S_L0R1, S_L1R0, S_L1R1, S_L1, S_R1, S_empty}

(* --------------------------- state machine ---------------------------- *)

NoCall ==
  [called |-> FALSE, pose |-> NullResult, hand |-> NullResult,
   state |-> [rep |-> 0, phase |-> S_idle],
   result |-> NoPhase(0, <<"Idle">>, 0)]

\* the shoulder cycle of the instructions, frame by frame: left shoulder
\* raised, back to neutral, right shoulder raised, back to neutral
CycleKinds == <<"left", "neutral", "right", "neutral">>
CycleOff == Len(CycleKinds) + 1

ShoulderFrameKind(pose) ==
  IF ~HasLandmarks(pose) THEN "other"
  ELSE LET lm == FirstLandmarks(pose)
           lAngle == shoulderAngle(lm, 7, 11)
           rAngle == shoulderAngle(lm, 8, 12)
       IN  CASE lAngle >= liftAngle /\ rAngle < relaxAngle -> "left"
             [] rAngle >= liftAngle /\ lAngle < relaxAngle -> "right"
             [] lAngle < relaxAngle /\ rAngle < relaxAngle -> "neutral"
             [] OTHER -> "other"

\* the cycle advances on the frame it expects next and is abandoned on any
\* other frame
CycleNext(c, ex, pose) ==
  IF ex = "shoulder" /\ c < Len(CycleKinds)
     /\ ShoulderFrameKind(pose) = CycleKinds[c + 1]
  THEN c + 1
  ELSE CycleOff

\* the rep and the phase processFrame stores after a call
storedRep(result, rep) == IF result.rep # rep THEN result.rep ELSE rep

\* variant: a result without phase puts the phase back to idle
storedPhase_orIdle(result, phase) ==
  IF result.hasPhase /\ result.phase # S_empty THEN result.phase ELSE S_idle

storedPhase(result, phase) ==
  IF result.hasPhase /\ result.phase # S_empty /\ result.phase # phase
  THEN result.phase
  ELSE phase

\* the value of a JavaScript number that is not a number
NaN == -1000000
JsMin(a, b) == IF a = NaN \/ b = NaN THEN NaN ELSE Min(a, b)
JsMax(a, b) == IF a = NaN \/ b = NaN THEN NaN ELSE Max(a, b)

\* variant: only the upper end is clamped
safeQuality_upperOnly(q) == JsMin(100, IF q = NaN \/ q = 0 THEN 0 ELSE q)

\* Math.max(0, Math.min(100, result.quality || 0))
safeQuality(q) ==
  JsMax(0, JsMin(100, IF q = NaN \/ q = 0 THEN 0 ELSE q))

\* config.targetReps
targetReps(ex) ==
  CASE ex = "head" -> 10
    [] ex = "finger" -> 15
    [] ex = "hand" -> 12
    [] ex = "leg" -> 12
    [] ex = "shoulder" -> 12

\* no node under liveSessions
NoLive ==
  [published |-> FALSE, repCount |-> 0, quality |-> 0, progress |-> <<0, 1>>,
   exerciseId |-> "", status |-> << >>, accuracy |-> 0, stability |-> 0,
   formScore |-> 0]

\* the object processFrame sets under liveSessions; progress is a fraction
\* <<numerator, denominator>>, formScore is in tenths
liveSnapshot(ex, rep, result, sq) ==
  LET stability == Max(0, Min(100, 100 - Abs(sq - 80)))
  IN  [published |-> TRUE,
       repCount |-> rep,
       quality |-> sq,
       progress |-> <<Min(100 * targetReps(ex), rep * 100), targetReps(ex)>>,
       exerciseId |-> ex,
       status |-> result.status,
       accuracy |-> sq,
       stability |-> stability,
       formScore |-> 6 * sq + 4 * stability]

\* no session document
NoRecord ==
  [written |-> FALSE, exerciseId |-> "", repetitionCount |-> 0,
   qualityAvg |-> <<0, 1>>]

\* the document saveSession hands to addDoc; qualityAvg is a fraction
sessionRecord(ex, rep, sum, count) ==
  [written |-> TRUE, exerciseId |-> ex, repetitionCount |-> rep,
   qualityAvg |-> IF count > 0 THEN <<sum, count>> ELSE <<0, 1>>]

\* the page state of the evaluator harness: no page
NoPage ==
  /\ inSession = FALSE
  /\ initialised = FALSE
  /\ paused = FALSE
  /\ quality = 0
  /\ status = <<"Select an exercise to begin.">>
  /\ sumQualityRef = 0
  /\ frameCountRef = 0
  /\ live = NoLive
  /\ savePc = "idle"
  /\ pending = NoRecord
  /\ clinicId = ""

\* the evaluator is applied from any exercise id and any prior state
InitEval ==
  /\ exercise \in ExerciseIds \cup OtherIds
  /\ repRef \in 0..MaxInitRep
  /\ phaseRef \in PriorPhases
  /\ last = NoCall
  /\ prev = NoCall
  /\ cycle = IF repRef = 0 /\ phaseRef = S_idle THEN 0 ELSE CycleOff
  /\ NoPage

\* one frame of processFrame: evaluateFrame on the stored counters, then
\* the stored rep and phase take the returned values
EvaluateFrame ==
  /\ repRef < MaxRep
  /\ \E f \in Frames(exercise) :
       \E result \in {evaluateFrame(exercise, f[1], f[2],
                                    [rep |-> repRef, phase |-> phaseRef])} :
         /\ repRef' = storedRep(result, repRef)
         /\ phaseRef' = storedPhase(result, phaseRef)
         /\ last' = [called |-> TRUE, pose |-> f[1], hand |-> f[2],
                     state |-> [rep |-> repRef, phase |-> phaseRef],
                     result |-> result]
         /\ prev' = last
         /\ cycle' = CycleNext(cycle, exercise, f[1])
  /\ UNCHANGED <<exercise, pageVars>>

NextEval == EvaluateFrame

SpecEval == InitEval /\ [][NextEval]_vars

(* ------------------------- the patient page --------------------------- *)

\* the page as mounted on the dashboard
InitPage ==
  /\ exercise = "head"
  /\ repRef = 0
  /\ phaseRef = S_idle
  /\ last = NoCall
  /\ prev = NoCall
  /\ cycle = 0
  /\ inSession = FALSE
  /\ initialised = FALSE
  /\ paused = FALSE
  /\ quality = 0
  /\ status = <<"Select an exercise to begin.">>
  /\ sumQualityRef = 0
  /\ frameCountRef = 0
  /\ live = NoLive
  /\ savePc = "idle"
  /\ pending = NoRecord
  /\ clinicId \in {"", "clinic"}

\* resetCounters; the record of the last call covers the frames since the
\* counters were reset
resetCounters ==
  /\ repRef' = 0
  /\ phaseRef' = S_idle
  /\ sumQualityRef' = 0
  /\ frameCountRef' = 0
  /\ cycle' = 0
  /\ last' = NoCall

\* variant: the reset effect runs on entering the session view only, not on
\* a change of exercise
OpenSession_enterOnly(ex) ==
  /\ exercise' = ex
  /\ inSession' = TRUE
  /\ IF ~inSession
     THEN /\ resetCounters
          /\ paused' = FALSE
          /\ quality' = 0
          /\ status' = <<"Preparing camera...">>
     ELSE UNCHANGED <<repRef, phaseRef, sumQualityRef, frameCountRef, cycle,
                      last, paused, quality, status>>
  /\ UNCHANGED <<prev, initialised, live, savePc, pending, clinicId>>

\* openSession from a dashboard card or a chip of the session view, and the
\* effect that follows a change of inSession or exercise
OpenSession(ex) ==
  /\ exercise' = ex
  /\ inSession' = TRUE
  /\ IF ~inSession \/ ex # exercise
     THEN /\ resetCounters
          /\ paused' = FALSE
          /\ quality' = 0
          /\ status' = <<"Preparing camera...">>
     ELSE UNCHANGED <<repRef, phaseRef, sumQualityRef, frameCountRef, cycle,
                      last, paused, quality, status>>
  /\ UNCHANGED <<prev, initialised, live, savePc, pending, clinicId>>

\* backToDashboard: stopVideo, which removes the live node, and navigation
BackToDashboard ==
  /\ inSession
  /\ inSession' = FALSE
  /\ initialised' = FALSE
  /\ live' = IF clinicId # "" THEN NoLive ELSE live
  /\ UNCHANGED <<exercise, repRef, phaseRef, last, prev, cycle, paused,
                 quality, status, sumQualityRef, frameCountRef, savePc,
                 pending, clinicId>>

\* the setup effect reaches its end
SetupDone ==
  /\ inSession
  /\ ~initialised
  /\ initialised' = TRUE
  /\ status' = <<"Camera ready. Start moving.">>
  /\ UNCHANGED <<exercise, repRef, phaseRef, last, prev, cycle, inSession,
                 paused, quality, sumQualityRef, frameCountRef, live, savePc,
                 pending, clinicId>>

\* the setup effect throws
SetupFail ==
  /\ inSession
  /\ ~initialised
  /\ status' = <<"Camera or AI setup failed. Retry and allow camera access.">>
  /\ UNCHANGED <<exercise, repRef, phaseRef, last, prev, cycle, inSession,
                 initialised, paused, quality, sumQualityRef, frameCountRef,
                 live, savePc, pending, clinicId>>

\* the button Retry camera setup
RetrySetup ==
  /\ inSession
  /\ ~initialised
  /\ status' = <<"Retrying camera setup...">>
  /\ UNCHANGED <<exercise, repRef, phaseRef, last, prev, cycle, inSession,
                 initialised, paused, quality, sumQualityRef, frameCountRef,
                 live, savePc, pending, clinicId>>

\* the button Pause tracking / Resume tracking
TogglePause ==
  /\ inSession
  /\ paused' = ~paused
  /\ UNCHANGED <<exercise, repRef, phaseRef, last, prev, cycle, inSession,
                 initialised, quality, status, sumQualityRef, frameCountRef,
                 live, savePc, pending, clinicId>>

\* the button Reset counters
ResetClick ==
  /\ inSession
  /\ resetCounters
  /\ quality' = 0
  /\ status' = <<"Counters reset.">>
  /\ UNCHANGED <<exercise, prev, inSession, initialised, paused, live,
                 savePc, pending, clinicId>>

\* variant: frames are processed while tracking is paused
ProcessFrame_whilePaused ==
  /\ inSession
  /\ initialised
  /\ frameCountRef < MaxFrames
  /\ \E f \in CameraFrames(exercise) :
       \E result \in {evaluateFrame(exercise, f[1], f[2],
                                    [rep |-> repRef, phase |-> phaseRef])} :
         /\ repRef' = storedRep(result, repRef)
         /\ phaseRef' = storedPhase(result, phaseRef)
         /\ status' = result.status
         /\ quality' = safeQuality(result.quality)
         /\ sumQualityRef' = sumQualityRef + safeQuality(result.quality)
         /\ frameCountRef' = frameCountRef + 1
         /\ live' = IF clinicId # ""
                    THEN liveSnapshot(exercise, storedRep(result, repRef),
                                      result, safeQuality(result.quality))
                    ELSE live
         /\ last' = [called |-> TRUE, pose |-> f[1], hand |-> f[2],
                     state |-> [rep |-> repRef, phase |-> phaseRef],
                     result |-> result]
         /\ cycle' = CycleNext(cycle, exercise, f[1])
  /\ UNCHANGED <<exercise, prev, inSession, initialised, paused, savePc,
                 pending, clinicId>>

\* processFrame on a frame it does not skip
ProcessFrame ==
  /\ inSession
  /\ initialised
  /\ ~paused
  /\ frameCountRef < MaxFrames
  /\ \E f \in CameraFrames(exercise) :
       \E result \in {evaluateFrame(exercise, f[1], f[2],
                                    [rep |-> repRef, phase |-> phaseRef])} :
         /\ repRef' = storedRep(result, repRef)
         /\ phaseRef' = storedPhase(result, phaseRef)
         /\ status' = result.status
         /\ quality' = safeQuality(result.quality)
         /\ sumQualityRef' = sumQualityRef + safeQuality(result.quality)
         /\ frameCountRef' = frameCountRef + 1
         /\ live' = IF clinicId # ""
                    THEN liveSnapshot(exercise, storedRep(result, repRef),
                                      result, safeQuality(result.quality))
                    ELSE live
         /\ last' = [called |-> TRUE, pose |-> f[1], hand |-> f[2],
                     state |-> [rep |-> repRef, phase |-> phaseRef],
                     result |-> result]
         /\ cycle' = CycleNext(cycle, exercise, f[1])
  /\ UNCHANGED <<exercise, prev, inSession, initialised, paused, savePc,
                 pending, clinicId>>

\* saveSession up to its await of addDoc
SaveStart ==
  /\ inSession
  /\ savePc = "idle"
  /\ clinicId # ""
  /\ savePc' = "writing"
  /\ pending' = sessionRecord(exercise, repRef, sumQualityRef, frameCountRef)
  /\ UNCHANGED <<exercise, repRef, phaseRef, last, prev, cycle, inSession,
                 initialised, paused, quality, status, sumQualityRef,
                 frameCountRef, live, clinicId>>

\* addDoc resolves: the document is written, the counters are reset
SaveWritten ==
  /\ savePc = "writing"
  /\ savePc' = "reloading"
  /\ status' = <<"Session saved to your history.">>
  /\ resetCounters
  /\ UNCHANGED <<exercise, prev, inSession, initialised, paused,
                 quality, live, pending, clinicId>>

\* variant: the counters are reset when the write fails
SaveFail_reset ==
  /\ savePc = "writing"
  /\ savePc' = "idle"
  /\ pending' = NoRecord
  /\ status' = <<"Failed to save session. Please try again.">>
  /\ resetCounters
  /\ UNCHANGED <<exercise, prev, inSession, initialised, paused, quality,
                 live, clinicId>>

\* addDoc rejects
SaveFail ==
  /\ savePc = "writing"
  /\ savePc' = "idle"
  /\ pending' = NoRecord
  /\ status' = <<"Failed to save session. Please try again.">>
  /\ UNCHANGED <<exercise, repRef, phaseRef, last, prev, cycle, inSession,
                 initialised, paused, quality, sumQualityRef, frameCountRef,
                 live, clinicId>>

\* loadHistory returns and the finally block runs
SaveDone ==
  /\ savePc = "reloading"
  /\ savePc' = "idle"
  /\ pending' = NoRecord
  /\ UNCHANGED <<exercise, repRef, phaseRef, last, prev, cycle, inSession,
                 initialised, paused, quality, status, sumQualityRef,
                 frameCountRef, live, clinicId>>

NextPage ==
  \/ \E ex \in ExerciseIds : OpenSession(ex)
  \/ BackToDashboard
  \/ SetupDone
  \/ SetupFail
  \/ RetrySetup
  \/ TogglePause
  \/ ResetClick
  \/ ProcessFrame
  \/ SaveStart
  \/ SaveWritten
  \/ SaveFail
  \/ SaveDone

SpecPage == InitPage /\ [][NextPage]_vars

(* ------------------------------ claims -------------------------------- *)

Called == last.called
Result == last.result
Prior == last.state

\* the landmark result the exercise's analyzer consumes
Consumed(call) ==
  IF exercise \in {"finger", "hand"} THEN call.hand ELSE call.pose

\* a head frame whose yaw is measured: pose present, shoulders apart
HeadMeasured(pose) ==
  HasLandmarks(pose) /\ headSpan(FirstLandmarks(pose)) # 0
YawAbove25(pose) ==
  HeadMeasured(pose) /\ headYaw(FirstLandmarks(pose)) > 25
YawBelowMinus25(pose) ==
  HeadMeasured(pose) /\ headYaw(FirstLandmarks(pose)) < -25

\* C1: the rep returned by a call is never smaller than the rep passed in
C1_RepNeverDecreases == Called => Result.rep >= Prior.rep

C1_Witness ==
  /\ Called
  /\ HasLandmarks(Consumed(last))
  /\ Prior.rep > 0
  /\ Result.rep > Prior.rep

\* C2: the quality returned by a call lies in 0..100
C2_QualityInRange == Called => (Result.quality >= 0 /\ Result.quality <= 100)

\* the not-visible status of each exercise
NotVisibleStatus(ex) ==
  CASE ex = "head" -> <<"Show your shoulders and head">>
    [] ex \in {"finger", "hand"} -> <<"Show your hand to the camera">>
    [] ex = "leg" -> <<"Show full body to camera">>
    [] ex = "shoulder" -> <<"Show upper body">>

\* C3: with the consumed landmark set absent (null or empty list) a call
\* returns quality 0, the prior rep, the exercise's not-visible status and
\* no phase, and the stored rep and phase stay as they were
C3_AbsentLandmarksNeutral ==
  (Called /\ exercise \in ExerciseIds /\ ~HasLandmarks(Consumed(last)))
    => /\ Result.quality = 0
       /\ Result.rep = Prior.rep
       /\ Result.status = NotVisibleStatus(exercise)
       /\ ~Result.hasPhase
       /\ repRef = Prior.rep
       /\ phaseRef = Prior.phase

C3_Witness ==
  /\ Called
  /\ exercise = "leg"
  /\ last.pose = EmptyResult
  /\ Prior.phase = S_up
  /\ phaseRef = S_up

\* C4: an exercise id outside the catalogue returns the prior rep, status
\* Idle, quality 0 and no phase, whatever the landmarks and prior state
C4_UnknownIdIdle ==
  (Called /\ exercise \notin ExerciseIds)
    => /\ Result.rep = Prior.rep
       /\ Result.status = <<"Idle">>
       /\ Result.quality = 0
       /\ ~Result.hasPhase
       /\ repRef = Prior.rep
       /\ phaseRef = Prior.phase

C4_Witness ==
  /\ Called
  /\ exercise = "unknown"
  /\ HasLandmarks(last.pose)
  /\ HasLandmarks(last.hand)
  /\ Prior.rep > 0
  /\ Prior.phase = S_right

\* C5: head-turn, a frame with yaw > 25 followed by a frame with yaw < -25:
\* the second call returns its prior rep + 1 and phase left
C5_RightThenLeftCounts ==
  (exercise = "head" /\ prev.called /\ Called
     /\ YawAbove25(prev.pose) /\ YawBelowMinus25(last.pose))
    => /\ Result.rep = Prior.rep + 1
       /\ Result.hasPhase
       /\ Result.phase = S_left

C5_Witness ==
  /\ exercise = "head"
  /\ prev.called
  /\ Called
  /\ prev.state.phase = S_left
  /\ YawAbove25(prev.pose)
  /\ YawBelowMinus25(last.pose)
  /\ repRef = prev.state.rep + 1
  /\ phaseRef = S_left

\* C6: head-turn counts both sweep directions: after a frame with
\* yaw < -25 (phase left) a frame with yaw > 25 returns rep + 1 and phase
\* right, just as after a frame with yaw > 25 (phase right) a frame with
\* yaw < -25 returns rep + 1 and phase left
C6_SweepsSymmetric ==
  (exercise = "head" /\ prev.called /\ Called)
    => /\ (YawBelowMinus25(prev.pose) /\ YawAbove25(last.pose))
            => (Prior.phase = S_left /\ Result.rep = Prior.rep + 1
                /\ Result.phase = S_right)
       /\ (YawAbove25(prev.pose) /\ YawBelowMinus25(last.pose))
            => (Prior.phase = S_right /\ Result.rep = Prior.rep + 1
                /\ Result.phase = S_left)

\* the normalised pinch gap of a hand frame against a percentage
GapBelow(hand, pct) ==
  HasLandmarks(hand) /\ NormBelow(fingerNormSq(FirstLandmarks(hand)), pct)
GapAbove(hand, pct) ==
  HasLandmarks(hand) /\ NormAbove(fingerNormSq(FirstLandmarks(hand)), pct)

\* C7: finger-pinch, a frame with gap < 0.25 returns phase pinched and the
\* prior rep; a frame with gap > 0.45 evaluated while the phase is pinched,
\* in particular one that follows a gap < 0.25 frame, returns rep + 1 and
\* phase released
C7_PinchThenRelease ==
  (exercise = "finger" /\ Called)
    => /\ GapBelow(last.hand, 25)
            => (Result.phase = S_pinched /\ Result.rep = Prior.rep)
       /\ (GapAbove(last.hand, 45) /\ Prior.phase = S_pinched)
            => (Result.rep = Prior.rep + 1 /\ Result.phase = S_released)
       /\ (prev.called /\ GapBelow(prev.hand, 25) /\ GapAbove(last.hand, 45))
            => (Result.rep = prev.state.rep + 1
                /\ Result.phase = S_released)

C7_Witness ==
  /\ exercise = "finger"
  /\ prev.called
  /\ Called
  /\ prev.state.phase = S_idle
  /\ GapBelow(prev.hand, 25)
  /\ GapAbove(last.hand, 45)
  /\ repRef = prev.state.rep + 1
  /\ phaseRef = S_released

\* knee y strictly less than hip y minus 0.05 (one grid step)
KneeAboveMargin(pose) ==
  HasLandmarks(pose)
  /\ FirstLandmarks(pose)[25].y + 1 < FirstLandmarks(pose)[23].y
KneeAtOrBelowMargin(pose) ==
  HasLandmarks(pose)
  /\ FirstLandmarks(pose)[25].y + 1 >= FirstLandmarks(pose)[23].y

\* C8: knee-raise, a raised frame returns phase up and the prior rep; a
\* not-raised frame with prior phase up, in particular one that follows a
\* raised frame, returns rep + 1 and phase down; a not-raised frame with
\* any other prior phase returns the prior rep and the prior phase
C8_KneeRaiseCycle ==
  (exercise = "leg" /\ Called)
    => /\ KneeAboveMargin(last.pose)
            => (Result.phase = S_up /\ Result.rep = Prior.rep)
       /\ (KneeAtOrBelowMargin(last.pose) /\ Prior.phase = S_up)
            => (Result.rep = Prior.rep + 1 /\ Result.phase = S_down)
       /\ (KneeAtOrBelowMargin(last.pose) /\ Prior.phase # S_up)
            => (Result.rep = Prior.rep /\ Result.phase = Prior.phase)
       /\ (prev.called /\ KneeAboveMargin(prev.pose)
             /\ KneeAtOrBelowMargin(last.pose))
            => (Result.rep = prev.state.rep + 1 /\ Result.phase = S_down)

C8_Witness ==
  /\ exercise = "leg"
  /\ prev.called
  /\ Called
  /\ KneeAboveMargin(prev.pose)
  /\ KneeAtOrBelowMargin(last.pose)
  /\ FirstLandmarks(last.pose)[25].y + 1 = FirstLandmarks(last.pose)[23].y
  /\ repRef = prev.state.rep + 1
  /\ phaseRef = S_down

\* both shoulder angles of a pose frame exceed deg degrees
BothAnglesAbove(pose, deg) ==
  /\ HasLandmarks(pose)
  /\ shoulderAngleNum(FirstLandmarks(pose), 7, 11)
       > deg * shoulderSpan(FirstLandmarks(pose))
  /\ shoulderAngleNum(FirstLandmarks(pose), 8, 12)
       > deg * shoulderSpan(FirstLandmarks(pose))

\* C9: shoulder-raise, one frame with both angles above 60 and prior phase
\* L0R0 returns rep + 2 and phase L1R1
C9_BothShouldersLift ==
  (exercise = "shoulder" /\ Called /\ Prior.phase = S_L0R0
     /\ BothAnglesAbove(last.pose, 60))
    => (Result.rep = Prior.rep + 2 /\ Result.phase = S_L1R1)

C9_Witness ==
  /\ exercise = "shoulder"
  /\ Called
  /\ Prior.phase = S_L0R0
  /\ BothAnglesAbove(last.pose, 60)
  /\ repRef = Prior.rep + 2
  /\ phaseRef = S_L1R1

\* C10: one call raises rep by 0, 1 or 2 for shoulder and by 0 or 1 for
\* head, finger, hand and leg
C10_RepStep ==
  Called
    => (Result.rep - Prior.rep)
         \in (IF exercise = "shoulder" THEN {0, 1, 2} ELSE {0, 1})

C10_Witness ==
  /\ exercise = "shoulder"
  /\ prev.called
  /\ Called
  /\ prev.result.rep = prev.state.rep + 1
  /\ Result.rep = Prior.rep + 1
  /\ Prior.phase \in {S_L1R0, S_L0R1}

\* C12: evaluating the same frame twice in a row, the second call on the
\* rep and phase left by the first, returns the rep and the phase of the
\* first: a repetition is counted once
C12_SameFrameCountsOnce ==
  (prev.called /\ Called /\ last.pose = prev.pose /\ last.hand = prev.hand)
    => /\ Result.rep = prev.result.rep
       /\ Result.hasPhase = prev.result.hasPhase
       /\ Result.phase = prev.result.phase
       /\ repRef = Prior.rep
       /\ phaseRef = Prior.phase

C12_Witness ==
  /\ prev.called
  /\ Called
  /\ exercise = "leg"
  /\ last.pose = prev.pose
  /\ last.hand = prev.hand
  /\ prev.result.rep = prev.state.rep + 1
  /\ Result.rep = prev.result.rep
  /\ phaseRef = S_down

\* every pose and every hand result of the input sets
AllPoses ==
  Absent \cup {DefaultPose} \cup HeadPoses \cup LegPoses \cup ShoulderPoses
AllHands == Absent \cup {DefaultHand} \cup FingerHands \cup OpenFistHands

\* C13: the result of a call does not depend on the modality the exercise
\* ignores: replacing the hand argument (head, leg, shoulder) or the pose
\* argument (finger, hand) by any other value gives the same result
C13_IgnoredInputIrrelevant ==
  (Called /\ exercise \in ExerciseIds)
    => IF exercise \in {"finger", "hand"}
       THEN \A alt \in AllPoses :
              evaluateFrame(exercise, alt, last.hand, Prior) = Result
       ELSE \A alt \in AllHands :
              evaluateFrame(exercise, last.pose, alt, Prior) = Result

C13_Witness ==
  /\ Called
  /\ exercise = "leg"
  /\ last.hand = NullResult
  /\ HasLandmarks(last.pose)
  /\ Prior.phase = S_up
  /\ Result.rep = Prior.rep + 1

ShoulderLabels == {S_L0R0, S_L0R1, S_L1R0, S_L1R1}

\* C18 as stated: shoulder-raise treats every prior phase that is not one of
\* the four labels exactly as L0R0
C18_ForeignPhaseIsL0R0 ==
  (exercise = "shoulder" /\ Called /\ Prior.phase \notin ShoulderLabels)
    => Result = evaluateFrame("shoulder", last.pose, last.hand,
                              [rep |-> Prior.rep, phase |-> S_L0R0])

\* the label whose flags are set by the substrings L1 and R1 of a phase
LabelRead(phase) ==
  <<"L", IF Includes(phase, S_L1) THEN "1" ELSE "0",
    "R", IF Includes(phase, S_R1) THEN "1" ELSE "0">>

\* C18 amended: shoulder-raise treats a prior phase that is not one of the
\* four labels as the label whose left digit is 1 iff the phase contains L1
\* and whose right digit is 1 iff it contains R1; a phase containing
\* neither is treated exactly as L0R0
C18_ForeignPhaseReadBySubstring ==
  (exercise = "shoulder" /\ Called /\ Prior.phase \notin ShoulderLabels)
    => /\ Result = evaluateFrame("shoulder", last.pose, last.hand,
                                 [rep |-> Prior.rep,
                                  phase |-> LabelRead(Prior.phase)])
       /\ (~Includes(Prior.phase, S_L1) /\ ~Includes(Prior.phase, S_R1))
            => Result = evaluateFrame("shoulder", last.pose, last.hand,
                                      [rep |-> Prior.rep, phase |-> S_L0R0])

C18_Witness ==
  /\ exercise = "shoulder"
  /\ Called
  /\ Prior.phase = S_L1
  /\ BothAnglesAbove(last.pose, 60)
  /\ Result.rep = Prior.rep + 1
  /\ Result.phase = S_L1R1

\* one side of a shoulder call: the hold flag before and after, the
\* angle numerator against a threshold, and whether the side was counted
HoldBefore(side) == Includes(Prior.phase, side)
HoldAfter(side) == Includes(Result.phase, side)
SideAngleAtLeast(ear, shoulder, deg) ==
  shoulderAngleNum(FirstLandmarks(last.pose), ear, shoulder)
    >= deg * shoulderSpan(FirstLandmarks(last.pose))
SideCounted(side, ear, shoulder) ==
  ~HoldBefore(side) /\ SideAngleAtLeast(ear, shoulder, 60)
SideRule(side, ear, shoulder) ==
  /\ HoldAfter(side)
       = (SideCounted(side, ear, shoulder)
          \/ (HoldBefore(side) /\ SideAngleAtLeast(ear, shoulder, 40)))
  /\ (~SideAngleAtLeast(ear, shoulder, 60)
      /\ SideAngleAtLeast(ear, shoulder, 40))
       => HoldAfter(side) = HoldBefore(side)

\* C19: shoulder-raise counts each side with hysteresis: a side with a
\* clear flag is counted, and its flag set, exactly when its angle is >= 60;
\* a set flag is cleared exactly when the angle is < 40; angles in [40, 60)
\* change neither flag nor rep; so a side counted in one call is not
\* counted in the next call, and is counted again only after a call in
\* which its flag was cleared by an angle below 40
C19_ShoulderHysteresis ==
  (exercise = "shoulder" /\ Called /\ HasLandmarks(last.pose))
    => /\ SideRule(S_L1, 7, 11)
       /\ SideRule(S_R1, 8, 12)
       /\ Result.rep = Prior.rep
                         + (IF SideCounted(S_L1, 7, 11) THEN 1 ELSE 0)
                         + (IF SideCounted(S_R1, 8, 12) THEN 1 ELSE 0)
       /\ (prev.called /\ HasLandmarks(prev.pose))
            => /\ ~(Includes(prev.result.phase, S_L1)
                    /\ SideCounted(S_L1, 7, 11))
               /\ ~(Includes(prev.result.phase, S_R1)
                    /\ SideCounted(S_R1, 8, 12))

C19_Witness ==
  /\ exercise = "shoulder"
  /\ prev.called
  /\ Called
  /\ HasLandmarks(prev.pose)
  /\ HasLandmarks(last.pose)
  /\ prev.result.phase = S_L1R0
  /\ prev.result.rep = prev.state.rep + 1
  /\ SideAngleAtLeast(7, 11, 40)
  /\ ~SideAngleAtLeast(7, 11, 60)
  /\ Result.rep = Prior.rep
  /\ Result.phase = S_L1R0

\* the dead zone of the last frame: head |yaw| <= 25, finger gap in
\* [0.25, 0.45], hand exactly two extended fingers
InDeadZone ==
  CASE exercise = "head" ->
         /\ HeadMeasured(last.pose)
         /\ Abs(headYaw(FirstLandmarks(last.pose))) <= 25
    [] exercise = "finger" ->
         /\ HasLandmarks(last.hand)
         /\ ~GapBelow(last.hand, 25)
         /\ ~GapAbove(last.hand, 45)
    [] exercise = "hand" ->
         /\ HasLandmarks(last.hand)
         /\ handExtended(FirstLandmarks(last.hand)) = 2
    [] OTHER -> FALSE

\* C20: a frame in an analyzer's dead zone returns the prior rep and the
\* prior phase, whatever the prior phase
C20_DeadZoneKeepsState ==
  (Called /\ InDeadZone)
    => /\ Result.rep = Prior.rep
       /\ Result.phase = Prior.phase
       /\ repRef = Prior.rep
       /\ phaseRef = Prior.phase

C20_Witness ==
  /\ Called
  /\ exercise = "hand"
  /\ InDeadZone
  /\ Prior.phase = S_open
  /\ phaseRef = S_open


\* C11: in a shoulder session started from the reset state, the four frames
\* left shoulder raised, neutral, right shoulder raised, neutral leave the
\* rep count at 1
C11_CycleCountsOnce ==
  cycle = Len(CycleKinds) => repRef = 1

\* a step that starts or restarts a session: the session view is entered,
\* the exercise changes, Reset counters is pressed, or addDoc resolves
Restarted ==
  \/ inSession' /\ ~inSession
  \/ exercise' # exercise
  \/ status' = <<"Counters reset.">> /\ status # <<"Counters reset.">>
  \/ savePc = "writing" /\ savePc' = "reloading"

\* a step that processes a frame
FrameStep == frameCountRef' = frameCountRef + 1

\* C14: every step that starts or restarts a session leaves rep 0 and phase
\* "idle" with no frame counted, and the first frame processed after it is
\* evaluated from prior state {rep: 0, phase: "idle"}
C14_RestartResets ==
  [][ /\ Restarted =>
           repRef' = 0 /\ phaseRef' = S_idle /\ frameCountRef' = 0
      /\ FrameStep /\ frameCountRef = 0 =>
           /\ last'.called
           /\ last'.state = [rep |-> 0, phase |-> S_idle] ]_vars

\* a shoulder session counted a rep and its save is under way, the patient
\* switched to the head exercise, and the first head frame was evaluated
C14_Witness ==
  /\ savePc = "writing"
  /\ pending.exerciseId = "shoulder"
  /\ pending.repetitionCount >= 1
  /\ exercise = "head"
  /\ frameCountRef = 1
  /\ last.called
  /\ last.state.phase = S_idle

\* C15: a processed frame calls evaluateFrame with the stored rep and phase;
\* afterwards the stored rep is the returned rep and the stored phase is the
\* returned phase, or the old one when none is returned; between frames the
\* stored values change by a reset only
C15_SequentialThreading ==
  [][ /\ FrameStep =>
           /\ last'.state = [rep |-> repRef, phase |-> phaseRef]
           /\ last'.result =
                evaluateFrame(exercise, last'.pose, last'.hand,
                              [rep |-> repRef, phase |-> phaseRef])
           /\ repRef' = last'.result.rep
           /\ phaseRef' = IF last'.result.hasPhase
                          THEN last'.result.phase
                          ELSE phaseRef
      /\ ~FrameStep /\ (repRef' # repRef \/ phaseRef' # phaseRef) =>
           repRef' = 0 /\ phaseRef' = S_idle /\ frameCountRef' = 0 ]_vars

\* a frame returned no phase after an earlier frame had stored one
C15_Witness ==
  /\ frameCountRef >= 2
  /\ last.called
  /\ ~last.result.hasPhase
  /\ last.state.phase # S_idle
  /\ phaseRef = last.state.phase
  /\ repRef = last.result.rep

\* raw qualities: not a number, negative, in range, above 100
RawQualities == {NaN} \cup ((0 - MaxOvershoot)..(100 + MaxOvershoot))

\* C16: on every processed frame the displayed quality, the amount added to
\* the quality sum and the published quality are one value in 0..100, and
\* the clamp yields a value in 0..100 for every raw quality
C16_QualityClamped ==
  [][ FrameStep =>
        /\ quality' \in 0..100
        /\ sumQualityRef' - sumQualityRef = quality'
        /\ clinicId # "" => live'.published /\ live'.quality = quality'
        /\ \A q \in RawQualities : safeQuality(q) \in 0..100 ]_vars

\* the analyzer returned a negative quality and 0 was displayed and published
C16_Witness ==
  /\ frameCountRef >= 1
  /\ last.called
  /\ last.result.quality < 0
  /\ quality = 0
  /\ live.published
  /\ live.quality = 0


\* squares of the wrist-to-thumb span, of the pinch gap and of 0.1
SpanSq(hand) == distanceSq(FirstLandmarks(hand)[4], FirstLandmarks(hand)[0])
PinchSq(hand) == distanceSq(FirstLandmarks(hand)[4], FirstLandmarks(hand)[8])
FloorSq == (GridPerUnit \div PinchFloorDen) * (GridPerUnit \div PinchFloorDen)

\* the result of finger-pinch when the gap is normalised by a denominator
\* whose square is denSq
FingerResultWith(hand, denSq, state) ==
  LET normSq == [num |-> PinchSq(hand), den |-> denSq]
      next == fingerCount(normSq, state)
  IN  WithPhase(next.rep, <<"Pinch gap", fingerPercent(normSq), "%">>,
                fingerQuality(normSq), next.phase)

\* C21 as stated: finger-pinch normalises the gap by max(span, 0.1), for
\* every span, also those strictly between 0 and 0.1
C21_DenominatorAtLeastFloor ==
  (exercise = "finger" /\ Called /\ HasLandmarks(last.hand))
    => Result = FingerResultWith(last.hand, Max(SpanSq(last.hand), FloorSq),
                                 Prior)

\* C21 amended: finger-pinch normalises the gap by span itself whenever
\* span is not zero, also when span is below 0.1, and by 0.1 only when span
\* is exactly zero
C21_DenominatorZeroGuardOnly ==
  (exercise = "finger" /\ Called /\ HasLandmarks(last.hand))
    => Result = FingerResultWith(last.hand,
                                 IF SpanSq(last.hand) = 0 THEN FloorSq
                                 ELSE SpanSq(last.hand),
                                 Prior)

\* a span of 0.05 with a gap of 0.05: the gap is reported as 100 %, and
\* with span 0 the gap of 0.05 is reported as 50 %
C21_Witness ==
  /\ exercise = "finger"
  /\ prev.called
  /\ Called
  /\ HasLandmarks(prev.hand)
  /\ HasLandmarks(last.hand)
  /\ SpanSq(prev.hand) = 0
  /\ PinchSq(prev.hand) = 1
  /\ prev.result.status = <<"Pinch gap", 50, "%">>
  /\ SpanSq(last.hand) = 1
  /\ PinchSq(last.hand) = 1
  /\ Result.status = <<"Pinch gap", 100, "%">>


\* the fingers of a hand frame whose tip is strictly above its base knuckle
ExtendedFingers(hand) ==
  {f \in {<<8, 5>>, <<12, 9>>, <<16, 13>>, <<20, 17>>} :
     FirstLandmarks(hand)[f[1]].y < FirstLandmarks(hand)[f[2]].y}
ExtendedCount(hand) == Cardinality(ExtendedFingers(hand))

\* C22: open/fist, with extended the number of fingers whose tip y is
\* strictly less than the knuckle y: extended >= 3 returns phase open and the
\* prior rep; extended <= 1 from phase open returns rep + 1 and phase fist;
\* extended <= 1 from any other phase returns the prior rep and phase
C22_OpenFistRule ==
  (exercise = "hand" /\ Called /\ HasLandmarks(last.hand))
    => /\ ExtendedCount(last.hand) >= 3
            => (Result.phase = S_open /\ Result.rep = Prior.rep
                /\ phaseRef = S_open /\ repRef = Prior.rep)
       /\ (ExtendedCount(last.hand) <= 1 /\ Prior.phase = S_open)
            => (Result.rep = Prior.rep + 1 /\ Result.phase = S_fist
                /\ phaseRef = S_fist /\ repRef = Prior.rep + 1)
       /\ (ExtendedCount(last.hand) <= 1 /\ Prior.phase # S_open)
            => (Result.rep = Prior.rep /\ Result.phase = Prior.phase
                /\ phaseRef = Prior.phase /\ repRef = Prior.rep)

\* an open hand, then a hand with one finger extended and three tips level
\* with their knuckles: the rep is counted
C22_Witness ==
  /\ exercise = "hand"
  /\ prev.called
  /\ Called
  /\ HasLandmarks(prev.hand)
  /\ HasLandmarks(last.hand)
  /\ prev.state.phase = S_idle
  /\ ExtendedCount(prev.hand) = 4
  /\ ExtendedCount(last.hand) = 1
  /\ FirstLandmarks(last.hand)[20].y = FirstLandmarks(last.hand)[17].y
  /\ repRef = prev.state.rep + 1
  /\ phaseRef = S_fist


\* a present pose whose two shoulders have the same x
ShouldersCoincide(pose) ==
  HasLandmarks(pose)
    /\ FirstLandmarks(pose)[11].x = FirstLandmarks(pose)[12].x

\* C23: head-turn on a present pose with shoulder span zero returns the
\* prior rep, status Hold steady, quality 0 and no phase, wherever the nose
\* is and whatever the prior state; the stored rep and phase stay
C23_ZeroSpanHoldSteady ==
  (exercise = "head" /\ Called /\ ShouldersCoincide(last.pose))
    => /\ Result.rep = Prior.rep
       /\ Result.status = <<"Hold steady">>
       /\ Result.quality = 0
       /\ ~Result.hasPhase
       /\ repRef = Prior.rep
       /\ phaseRef = Prior.phase

\* zero span with the nose far to one side, evaluated from phase right
C23_Witness ==
  /\ exercise = "head"
  /\ Called
  /\ ShouldersCoincide(last.pose)
  /\ FirstLandmarks(last.pose)[0].x <
       FirstLandmarks(last.pose)[11].x - 1
  /\ Prior.phase = S_right
  /\ Prior.rep > 0
  /\ phaseRef = S_right


\* C24: shoulder-raise on a present pose with shoulder span zero returns the
\* prior rep, leaves both hold flags as they were and returns quality 0,
\* wherever the ears are and whatever the prior phase
C24_CollapsedSpanNeutral ==
  (exercise = "shoulder" /\ Called /\ ShouldersCoincide(last.pose))
    => /\ Result.rep = Prior.rep
       /\ Includes(Result.phase, S_L1) = Includes(Prior.phase, S_L1)
       /\ Includes(Result.phase, S_R1) = Includes(Prior.phase, S_R1)
       /\ Result.quality = 0


\* a frame that interrupts tracking: the consumed landmark set is absent,
\* or, in head-turn, the shoulder span is zero
Interrupting(call) ==
  \/ ~HasLandmarks(Consumed(call))
  \/ exercise = "head" /\ ShouldersCoincide(call.pose)

\* C25: after an interrupting frame the stored rep and phase are those held
\* before it, and the frame that follows returns what it would return
\* without the interruption
C25_InterruptionsHeal ==
  exercise \in ExerciseIds
    => /\ (Called /\ Interrupting(last))
            => /\ Result.rep = Prior.rep
               /\ repRef = Prior.rep
               /\ phaseRef = Prior.phase
       /\ (prev.called /\ Called /\ Interrupting(prev))
            => /\ Prior = prev.state
               /\ Result = evaluateFrame(exercise, last.pose, last.hand,
                                         prev.state)

\* a head sweep armed at phase right, interrupted by a zero-span frame, is
\* completed by the next frame
C25_Witness ==
  /\ exercise = "head"
  /\ prev.called
  /\ Called
  /\ ShouldersCoincide(prev.pose)
  /\ prev.state.phase = S_right
  /\ YawBelowMinus25(last.pose)
  /\ repRef = prev.state.rep + 1
  /\ phaseRef = S_left


\* the phase labels of each exercise
PhaseLabels(ex) ==
  CASE ex = "head" -> {S_idle, S_right, S_left}
    [] ex = "finger" -> {S_idle, S_pinched, S_released}
    [] ex = "hand" -> {S_idle, S_open, S_fist}
    [] ex = "leg" -> {S_idle, S_up, S_down}
    [] ex = "shoulder" -> {S_idle, S_L0R0, S_L0R1, S_L1R0, S_L1R1}

\* C26: in the page the stored phase is always a label of the selected
\* exercise and the stored rep is a non-negative integer
C26_PhaseInLabelSet ==
  /\ phaseRef \in PhaseLabels(exercise)
  /\ repRef \in Nat

\* a finger session counted a pinch and release
C26_Witness ==
  /\ exercise = "finger"
  /\ frameCountRef = 2
  /\ last.called
  /\ last.state.phase = S_pinched
  /\ phaseRef = S_released
  /\ repRef = 1


\* the phases from which each of the four two-phase analyzers counts
ArmedPhases(ex) ==
  CASE ex = "head" -> {S_right, S_left}
    [] ex = "finger" -> {S_pinched}
    [] ex = "hand" -> {S_open}
    [] ex = "leg" -> {S_up}

\* C27: in head-turn, finger-pinch, open/fist and knee-raise a call changes
\* rep only when the prior phase is an armed phase of the exercise; from
\* phase idle, and so from the reset state, a single frame returns the
\* prior rep
C27_CountsOnlyWhenArmed ==
  (exercise \in {"head", "finger", "hand", "leg"}
     /\ Called)
    => /\ Result.rep # Prior.rep => Prior.phase \in ArmedPhases(exercise)
       /\ Prior.phase = S_idle => (Result.rep = Prior.rep /\ repRef = Prior.rep)

\* the first frame from the reset state shows a closed fist: nothing counted
C27_Witness ==
  /\ exercise = "hand"
  /\ ~prev.called
  /\ Called
  /\ Prior = [rep |-> 0, phase |-> S_idle]
  /\ HasLandmarks(last.hand)
  /\ ExtendedCount(last.hand) = 0
  /\ repRef = 0
  /\ phaseRef = S_idle


\* C28: at the step where addDoc has resolved and saveSession resets the
\* counters, the repetitionCount of the document written equals the rep
\* counter that is reset
C28_SaveLosesNoRep ==
  [][ (savePc = "writing" /\ savePc' = "reloading")
        => pending.repetitionCount = repRef ]_vars


\* the counters of the session
Counters == <<repRef, phaseRef, sumQualityRef, frameCountRef>>
CountersReset == <<0, S_idle, 0, 0>>

\* C29: while tracking is paused no frame is processed and no live snapshot
\* is published; the counters change only by being reset; pausing and
\* resuming leave the counters as they are
C29_PausedFreezes ==
  [][ /\ paused =>
           /\ ~FrameStep
           /\ last' = last \/ last' = NoCall
           /\ live' = live \/ live' = NoLive
           /\ Counters' = Counters \/ Counters' = CountersReset
      /\ (paused' # paused /\ ~Restarted) => Counters' = Counters ]_vars

\* tracking was paused after a frame that stored a phase and published
C29_Witness ==
  /\ inSession
  /\ initialised
  /\ paused
  /\ frameCountRef = 1
  /\ phaseRef # S_idle
  /\ live.published
  /\ live.repCount = repRef

====
